---- MODULE Spec2Model ----
(***************************************************************************)
(* Model of the shape scale-then-outline task generator                    *)
(* (src/src/generator.py, class TaskGenerator).                            *)
(*                                                                         *)
(* Spec        the generator as a state machine: generate_task_pair calls  *)
(*             on one TaskGenerator instance (combination tracking).       *)
(* SpecCatalog _generate_all_valid_transformations applied to catalogs.    *)
(* SpecLayout  the slot centers computed by the four rendering routines.   *)
(* SpecMorph   the frames of _create_sequential_morph_frames.              *)
(* SpecFrames  the frame list of _create_transformation_frames.            *)
(* SpecDraw    single calls of _draw_shape_at_position, _draw_base_shape.  *)
(* SpecVideo   generate_task_pair under every video configuration.         *)
(*                                                                         *)
(* Numbers with a fractional part (scale factors 0.6 .. 1.9, the 0.8 / 0.2 *)
(* layout split) are kept as exact tenths: x is stored as 10 * x.          *)
(***************************************************************************)
EXTENDS Integers, Sequences, FiniteSets, Bags, TLC

\* ------------------------------------------------------------------------
\* Bounds of the model
\* ------------------------------------------------------------------------
\* The tracker is explored on a prefix of each catalog.
NumShapes == 2
NumScales == 2
NumStyles == 2
NumColors == 1
\* Number of random draws of the retry loop (max_attempts, 1000 in the code).
MaxAttempts == 2
\* Number of _generate_task_data calls explored on one generator.
MaxCalls == 10
\* Number of calls of _generate_all_valid_transformations on one catalog pair.
MaxGenerateCalls == 2
\* Largest step_frames argument of the animation (25 by default in the code).
MaxStepFrames == 4

\* ------------------------------------------------------------------------
\* Catalogs (TaskGenerator.__init__)
\* ------------------------------------------------------------------------
base_shapes ==
  << "square", "triangle", "circle", "diamond", "pentagon", "hexagon",
     "rectangle", "oval", "star", "heart", "cross", "arrow", "trapezoid",
     "rhombus", "octagon", "crescent", "plus", "minus", "L_shape", "T_shape" >>

shape_colors ==
  << <<70, 130, 180>>, <<220, 20, 60>>, <<50, 205, 50>>, <<255, 140, 0>>,
     <<128, 0, 128>>, <<255, 20, 147>>, <<0, 128, 0>>, <<165, 42, 42>>,
     <<75, 0, 130>>, <<255, 165, 0>> >>

\* list(self.scale_factors.keys()): insertion order of the dict
scale_names == << "tiny", "small", "medium", "large", "extra_large", "huge" >>

\* scale factors in tenths: 0.6, 0.8, 1.0, 1.3, 1.6, 1.9
scale_factors ==
  [n \in {"tiny", "small", "medium", "large", "extra_large", "huge"} |->
     CASE n = "tiny" -> 6
       [] n = "small" -> 8
       [] n = "medium" -> 10
       [] n = "large" -> 13
       [] n = "extra_large" -> 16
       [] n = "huge" -> 19]

\* list(self.fill_styles.keys())
style_names == << "filled", "outline", "thick_outline", "thin_outline" >>

fill_styles ==
  [n \in {"filled", "outline", "thick_outline", "thin_outline"} |->
     CASE n = "filled" -> [fill |-> TRUE, outline_width |-> 2]
       [] n = "outline" -> [fill |-> FALSE, outline_width |-> 3]
       [] n = "thick_outline" -> [fill |-> FALSE, outline_width |-> 5]
       [] n = "thin_outline" -> [fill |-> FALSE, outline_width |-> 1]]

\* ------------------------------------------------------------------------
\* Helpers
\* ------------------------------------------------------------------------
Range(s) == {s[i] : i \in 1..Len(s)}

Min(S) == CHOOSE x \in S : \A y \in S : x <= y

RECURSIVE Flatten(_)
\* concatenation of a sequence of sequences, in order
Flatten(ss) == IF ss = <<>> THEN <<>> ELSE Head(ss) \o Flatten(Tail(ss))

\* ------------------------------------------------------------------------
\* _generate_all_valid_transformations
\* ------------------------------------------------------------------------
\* variant: the test "style_from != style_to" is missing
generate_all_valid_transformations_NoStyleTest(scales, styles) ==
  Flatten([a \in 1..Len(scales) |->
    Flatten([b \in 1..Len(scales) |->
      IF scales[a] # scales[b]
      THEN Flatten([c \in 1..Len(styles) |->
             [d \in 1..Len(styles) |->
               <<scales[a], scales[b], styles[c], styles[d]>>]])
      ELSE <<>>])])

\* variant: the inner style loop starts after style_from (unordered pairs)
generate_all_valid_transformations_HalfStyles(scales, styles) ==
  Flatten([a \in 1..Len(scales) |->
    Flatten([b \in 1..Len(scales) |->
      IF scales[a] # scales[b]
      THEN Flatten([c \in 1..Len(styles) |->
             Flatten([d \in 1..Len(styles) |->
               IF d > c
               THEN << <<scales[a], scales[b], styles[c], styles[d]>> >>
               ELSE <<>>])])
      ELSE <<>>])])

\* The four nested loops over the scale names and the style names; the
\* result is the list in append order.
generate_all_valid_transformations(scales, styles) ==
  Flatten([a \in 1..Len(scales) |->
    Flatten([b \in 1..Len(scales) |->
      IF scales[a] # scales[b]
      THEN Flatten([c \in 1..Len(styles) |->
             Flatten([d \in 1..Len(styles) |->
               IF styles[c] # styles[d]
               THEN << <<scales[a], scales[b], styles[c], styles[d]>> >>
               ELSE <<>>])])
      ELSE <<>>])])

\* ------------------------------------------------------------------------
\* The generator instance explored by Spec: the catalog prefixes
\* ------------------------------------------------------------------------
Shapes == SubSeq(base_shapes, 1, NumShapes)
Colors == SubSeq(shape_colors, 1, NumColors)
Scales == SubSeq(scale_names, 1, NumScales)
Styles == SubSeq(style_names, 1, NumStyles)

\* self.valid_transformations, set once in __init__
valid_transformations == generate_all_valid_transformations(Scales, Styles)

\* combination_key of one draw: random.sample(base_shapes, 2) gives two
\* distinct shapes in either order, random.choice the quadruple and the color
RandomCombinations ==
  { k \in { <<se, sq, t[1], t[2], t[3], t[4], c>> :
               se \in Range(Shapes), sq \in Range(Shapes),
               t \in Range(valid_transformations), c \in Range(Colors) } :
      k[1] # k[2] }

\* ------------------------------------------------------------------------
\* _generate_scale_then_outline_task
\* ------------------------------------------------------------------------
\* variant: slot E takes the example shape
generate_scale_then_outline_task_SlotE(shape_example, shape_question, scale_from, scale_to, style_from, style_to, color) ==
  [ transformation_type |-> "scale_then_outline",
    shape_a |-> shape_example,
    shape_b |-> shape_example,
    shape_c |-> shape_example,
    shape_d |-> shape_question,
    shape_e |-> shape_example,
    shape_f |-> shape_question,
    scale_from |-> scale_from,
    scale_to |-> scale_to,
    style_from |-> style_from,
    style_to |-> style_to,
    color |-> color ]

generate_scale_then_outline_task(shape_example, shape_question, scale_from, scale_to, style_from, style_to, color) ==
  [ transformation_type |-> "scale_then_outline",
    shape_a |-> shape_example,
    shape_b |-> shape_example,
    shape_c |-> shape_example,
    shape_d |-> shape_question,
    shape_e |-> shape_question,
    shape_f |-> shape_question,
    scale_from |-> scale_from,
    scale_to |-> scale_to,
    style_from |-> style_from,
    style_to |-> style_to,
    color |-> color ]

TaskOfKey(k) ==
  generate_scale_then_outline_task(k[1], k[2], k[3], k[4], k[5], k[6], k[7])

\* combination_key of a task record
CombinationKey(t) ==
  <<t.shape_a, t.shape_d, t.scale_from, t.scale_to, t.style_from, t.style_to,
    t.color>>

NoTask == [transformation_type |-> "none"]

\* ------------------------------------------------------------------------
\* _generate_task_data and _generate_systematic_unique_combination
\* ------------------------------------------------------------------------
\* Both return [seen: the tracker set after the call, key, task, path,
\* notice: 1 when the exhaustion warning is printed].

\* variant: num_shapes * num_shapes instead of num_shapes * (num_shapes - 1)
max_unique_combinations_Square ==
  Len(Shapes) * Len(Shapes) * Len(valid_transformations) * Len(Colors)

\* variant: the two shapes are counted as an unordered pair
max_unique_combinations_UnorderedPairs ==
  ((Len(Shapes) * (Len(Shapes) - 1)) \div 2) * Len(valid_transformations)
    * Len(Colors)

\* max_unique_combinations (lines 138-141)
max_unique_combinations ==
  Len(Shapes) * (Len(Shapes) - 1) * Len(valid_transformations) * Len(Colors)

\* variant: the quadruples are visited from the last to the first
SweepOrder_QuadruplesReversed ==
  Flatten([a \in 1..Len(Shapes) |->
    Flatten([b \in 1..Len(Shapes) |->
      IF Shapes[a] = Shapes[b]
      THEN <<>>
      ELSE Flatten([t \in 1..Len(valid_transformations) |->
             LET q == valid_transformations[Len(valid_transformations) + 1 - t]
             IN [c \in 1..Len(Colors) |->
                   <<Shapes[a], Shapes[b], q[1], q[2], q[3], q[4], Colors[c]>>]])])])

\* The keys in the order the nested loops of the sweep visit them.
SweepOrder ==
  Flatten([a \in 1..Len(Shapes) |->
    Flatten([b \in 1..Len(Shapes) |->
      IF Shapes[a] = Shapes[b]
      THEN <<>>
      ELSE Flatten([t \in 1..Len(valid_transformations) |->
             [c \in 1..Len(Colors) |->
                <<Shapes[a], Shapes[b],
                  valid_transformations[t][1], valid_transformations[t][2],
                  valid_transformations[t][3], valid_transformations[t][4],
                  Colors[c]>>]])])])

\* variant: the sweep returns the free key without recording it
generate_systematic_unique_combination_NoAdd(seen) ==
  LET free == {i \in 1..Len(SweepOrder) : SweepOrder[i] \notin seen}
  IN IF free = {}
     THEN [seen |-> seen, key |-> <<>>, task |-> NoTask,
           path |-> "RuntimeError", notice |-> 0]
     ELSE LET k == SweepOrder[Min(free)]
          IN [seen |-> seen, key |-> k, task |-> TaskOfKey(k),
              path |-> "systematic", notice |-> 0]

generate_systematic_unique_combination(seen) ==
  LET free == {i \in 1..Len(SweepOrder) : SweepOrder[i] \notin seen}
  IN IF free = {}
     THEN [seen |-> seen, key |-> <<>>, task |-> NoTask,
           path |-> "RuntimeError", notice |-> 0]
     ELSE LET k == SweepOrder[Min(free)]
          IN [seen |-> seen \cup {k}, key |-> k, task |-> TaskOfKey(k),
              path |-> "systematic", notice |-> 0]

\* variant: the first draw is taken without the membership test
UniqueBranch_NoMembershipTest(seen, draws) ==
  [seen |-> seen \cup {draws[1]}, key |-> draws[1], task |-> TaskOfKey(draws[1]),
   path |-> "random", notice |-> 0]

\* The retry loop (lines 146-164): draws[i] is the key drawn by attempt i.
UniqueBranch(seen, draws) ==
  LET free == {i \in 1..Len(draws) : draws[i] \notin seen}
  IN IF free # {}
     THEN LET k == draws[Min(free)]
          IN [seen |-> seen \cup {k}, key |-> k, task |-> TaskOfKey(k),
              path |-> "random", notice |-> 0]
     ELSE generate_systematic_unique_combination(seen)

\* variant: the tracker set is cleared when the space is exhausted
DuplicateBranch_Clear(seen, draw) ==
  [seen |-> {}, key |-> draw, task |-> TaskOfKey(draw), path |-> "duplicate",
   notice |-> IF Cardinality(seen) = max_unique_combinations THEN 1 ELSE 0]

\* After exhaustion (lines 166-173): one draw, nothing is recorded.
DuplicateBranch(seen, draw) ==
  [seen |-> seen, key |-> draw, task |-> TaskOfKey(draw), path |-> "duplicate",
   notice |-> IF Cardinality(seen) = max_unique_combinations THEN 1 ELSE 0]

generate_task_data(seen, draws) ==
  IF Cardinality(seen) < max_unique_combinations
  THEN UniqueBranch(seen, draws)
  ELSE DuplicateBranch(seen, draws[1])

\* ------------------------------------------------------------------------
\* Rendering: what is drawn, as lists of draw operations
\* ------------------------------------------------------------------------
\* An image is the list of the draw operations applied to a blank canvas.
\* x coordinates are floats in the code and are kept in tenths of a pixel;
\* y coordinates and sizes are integers.
None == <<>>

\* v // 2 for a float v given in tenths; the result in tenths
FloorHalf(v10) == 10 * (v10 \div 20)

\* _draw_base_shape: the request handed to the rasterizer
draw_base_shape(shape, x, y, size, fill_color, outline_color, outline_width) ==
  [ op |-> "shape", shape |-> shape, x |-> x, y |-> y, size |-> size,
    fill_color |-> fill_color, outline_color |-> outline_color,
    outline_width |-> outline_width ]

\* int(num / den) for den > 0: int() truncates toward zero
IntTrunc(num, den) ==
  IF num >= 0 THEN num \div den ELSE 0 - ((0 - num) \div den)

\* _draw_shape_at_position (lines 327-343); int(base_size * scale_factor)
draw_shape_at_position(shape, position, base_size, scale_name, style_name, color) ==
  LET col == IF color = None THEN shape_colors[1] ELSE color
      actual_size == IntTrunc(base_size * scale_factors[scale_name], 10)
      style_config == fill_styles[style_name]
  IN draw_base_shape(shape, position[1], position[2], actual_size,
                     IF style_config.fill THEN col ELSE None,
                     col, style_config.outline_width)

draw_arrow(position) ==
  [ op |-> "arrow", x |-> position[1], y |-> position[2] ]

draw_question_mark(position) ==
  [ op |-> "question_mark", x |-> position[1], y |-> position[2] ]

\* ---- how a draw call ends ----
\* the ImageDraw calls made by the branch of the if / elif chain of
\* _draw_base_shape that shape selects (lines 349-538); the chain has no
\* else branch, so any other shape selects no call at all
base_shape_primitives(shape) ==
  CASE shape \in {"square", "rectangle", "minus"} -> <<"rectangle">>
    [] shape \in {"circle", "oval"} -> <<"ellipse">>
    [] shape \in {"triangle", "diamond", "pentagon", "hexagon", "star", "heart",
                  "arrow", "trapezoid", "rhombus", "octagon"} -> <<"polygon">>
    [] shape \in {"cross", "plus", "L_shape", "T_shape"} ->
         <<"rectangle", "rectangle">>
    [] shape = "crescent" -> <<"ellipse", "ellipse">>
    [] OTHER -> <<>>

\* What one ImageDraw call can do.  A polygon is drawn from any points.  A
\* rectangle or an ellipse whose box has x1 < x0, which is what a negative
\* half_size gives, is refused with ValueError by some releases of the
\* imaging library and accepted by others.
primitive_outcomes(kind, half_size) ==
  IF kind \in {"rectangle", "ellipse"} /\ half_size < 0
  THEN {"drawn", "ValueError"}
  ELSE {"drawn"}

\* _draw_base_shape (lines 345-538) as a call: half_size = size // 2, then
\* the calls of the selected branch; raised is "none" when the call returns
draw_base_shape_outcomes(shape, size) ==
  LET half_size == size \div 2
      prims == base_shape_primitives(shape)
  IN IF prims = <<>>
     THEN { [raised |-> "none", primitives |-> <<>>] }
     ELSE { [raised |-> IF o = "drawn" THEN "none" ELSE o,
             primitives |-> IF o = "drawn" THEN prims ELSE <<>>] :
              o \in primitive_outcomes(prims[1], half_size) }

\* _draw_shape_at_position (lines 327-343) as a call: the two dictionary
\* lookups raise KeyError for a name that is not a key
draw_shape_at_position_outcomes(shape, base_size, scale_name, style_name) ==
  IF scale_name \notin DOMAIN scale_factors \/ style_name \notin DOMAIN fill_styles
  THEN { [raised |-> "KeyError", primitives |-> <<>>] }
  ELSE draw_base_shape_outcomes(shape,
                                IntTrunc(base_size * scale_factors[scale_name], 10))

\* positions of _render_initial_state (lines 231-250)
render_initial_state_positions(width, height, margin) ==
  LET total_content_width == width - 2 * margin
      step_width == total_content_width \div 3
      shape_spacing == step_width * 8
      arrow_width == step_width * 2
      m == 10 * margin
  IN [ A |-> <<m + FloorHalf(shape_spacing), height \div 3>>,
       arrow1 |-> <<m + shape_spacing + FloorHalf(arrow_width), height \div 3>>,
       B |-> <<m + shape_spacing + arrow_width + FloorHalf(shape_spacing),
               height \div 3>>,
       arrow2 |-> <<m + 2 * shape_spacing + arrow_width + FloorHalf(arrow_width),
                    height \div 3>>,
       C |-> <<m + 2 * shape_spacing + 2 * arrow_width + FloorHalf(shape_spacing),
               height \div 3>>,
       D |-> <<m + FloorHalf(shape_spacing), (2 * height) \div 3>>,
       arrow3 |-> <<m + shape_spacing + FloorHalf(arrow_width),
                    (2 * height) \div 3>>,
       question1 |-> <<m + shape_spacing + arrow_width + FloorHalf(shape_spacing),
                       (2 * height) \div 3>>,
       arrow4 |-> <<m + 2 * shape_spacing + arrow_width + FloorHalf(arrow_width),
                    (2 * height) \div 3>>,
       question2 |-> <<m + 2 * shape_spacing + 2 * arrow_width
                         + FloorHalf(shape_spacing),
                       (2 * height) \div 3>> ]

\* variant: the centre of slot E leaves out the arrow width
render_final_state_positions_NoArrow(width, height, margin) ==
  LET total_content_width == width - 2 * margin
      step_width == total_content_width \div 3
      shape_spacing == step_width * 8
      arrow_width == step_width * 2
      m == 10 * margin
  IN [ A |-> <<m + FloorHalf(shape_spacing), height \div 3>>,
       arrow1 |-> <<m + shape_spacing + FloorHalf(arrow_width), height \div 3>>,
       B |-> <<m + shape_spacing + arrow_width + FloorHalf(shape_spacing),
               height \div 3>>,
       arrow2 |-> <<m + 2 * shape_spacing + arrow_width + FloorHalf(arrow_width),
                    height \div 3>>,
       C |-> <<m + 2 * shape_spacing + 2 * arrow_width + FloorHalf(shape_spacing),
               height \div 3>>,
       D |-> <<m + FloorHalf(shape_spacing), (2 * height) \div 3>>,
       arrow3 |-> <<m + shape_spacing + FloorHalf(arrow_width),
                    (2 * height) \div 3>>,
       E |-> <<m + shape_spacing + FloorHalf(shape_spacing),
               (2 * height) \div 3>>,
       arrow4 |-> <<m + 2 * shape_spacing + arrow_width + FloorHalf(arrow_width),
                    (2 * height) \div 3>>,
       F |-> <<m + 2 * shape_spacing + 2 * arrow_width + FloorHalf(shape_spacing),
               (2 * height) \div 3>> ]

\* positions of _render_final_state (lines 283-302)
render_final_state_positions(width, height, margin) ==
  LET total_content_width == width - 2 * margin
      step_width == total_content_width \div 3
      shape_spacing == step_width * 8
      arrow_width == step_width * 2
      m == 10 * margin
  IN [ A |-> <<m + FloorHalf(shape_spacing), height \div 3>>,
       arrow1 |-> <<m + shape_spacing + FloorHalf(arrow_width), height \div 3>>,
       B |-> <<m + shape_spacing + arrow_width + FloorHalf(shape_spacing),
               height \div 3>>,
       arrow2 |-> <<m + 2 * shape_spacing + arrow_width + FloorHalf(arrow_width),
                    height \div 3>>,
       C |-> <<m + 2 * shape_spacing + 2 * arrow_width + FloorHalf(shape_spacing),
               height \div 3>>,
       D |-> <<m + FloorHalf(shape_spacing), (2 * height) \div 3>>,
       arrow3 |-> <<m + shape_spacing + FloorHalf(arrow_width),
                    (2 * height) \div 3>>,
       E |-> <<m + shape_spacing + arrow_width + FloorHalf(shape_spacing),
               (2 * height) \div 3>>,
       arrow4 |-> <<m + 2 * shape_spacing + arrow_width + FloorHalf(arrow_width),
                    (2 * height) \div 3>>,
       F |-> <<m + 2 * shape_spacing + 2 * arrow_width + FloorHalf(shape_spacing),
               (2 * height) \div 3>> ]

\* positions of _render_static_elements (lines 695-712); the shape_spacing
\* and arrow_width arguments are overwritten before use
render_static_elements_positions(width, height, margin) ==
  LET total_content_width == width - 2 * margin
      step_width == total_content_width \div 3
      shape_spacing == step_width * 8
      arrow_width == step_width * 2
      m == 10 * margin
  IN [ A |-> <<m + FloorHalf(shape_spacing), height \div 3>>,
       arrow1 |-> <<m + shape_spacing + FloorHalf(arrow_width), height \div 3>>,
       B |-> <<m + shape_spacing + arrow_width + FloorHalf(shape_spacing),
               height \div 3>>,
       arrow2 |-> <<m + 2 * shape_spacing + arrow_width + FloorHalf(arrow_width),
                    height \div 3>>,
       C |-> <<m + 2 * shape_spacing + 2 * arrow_width + FloorHalf(shape_spacing),
               height \div 3>>,
       D |-> <<m + FloorHalf(shape_spacing), (2 * height) \div 3>>,
       arrow3 |-> <<m + shape_spacing + FloorHalf(arrow_width),
                    (2 * height) \div 3>>,
       arrow4 |-> <<m + 2 * shape_spacing + arrow_width + FloorHalf(arrow_width),
                    (2 * height) \div 3>> ]

\* question1_pos and question2_pos of _create_sequential_morph_frames
\* (lines 618-624)
morph_positions(width, height, margin) ==
  LET total_content_width == width - 2 * margin
      step_width == total_content_width \div 3
      shape_spacing == step_width * 8
      arrow_width == step_width * 2
      m == 10 * margin
  IN [ question1 |-> <<m + shape_spacing + arrow_width + FloorHalf(shape_spacing),
                       (2 * height) \div 3>>,
       question2 |-> <<m + 2 * shape_spacing + 2 * arrow_width
                         + FloorHalf(shape_spacing),
                       (2 * height) \div 3>> ]

\* _render_initial_state (lines 217-271)
render_initial_state(task, cfg) ==
  LET positions == render_initial_state_positions(cfg.image_size[1],
                                                  cfg.image_size[2], cfg.margin)
      base_shape_size == cfg.shape_size
      color == task.color
  IN << draw_shape_at_position(task.shape_a, positions.A, base_shape_size,
                               task.scale_from, task.style_from, color),
        draw_arrow(positions.arrow1),
        draw_shape_at_position(task.shape_b, positions.B, base_shape_size,
                               task.scale_to, task.style_from, color),
        draw_arrow(positions.arrow2),
        draw_shape_at_position(task.shape_c, positions.C, base_shape_size,
                               task.scale_to, task.style_to, color),
        draw_shape_at_position(task.shape_d, positions.D, base_shape_size,
                               task.scale_from, task.style_from, color),
        draw_arrow(positions.arrow3),
        draw_question_mark(positions.question1),
        draw_arrow(positions.arrow4),
        draw_question_mark(positions.question2) >>

\* variant: E is drawn with the post-transformation style
render_final_state_StyleToAtE(task, cfg) ==
  LET positions == render_final_state_positions(cfg.image_size[1],
                                                cfg.image_size[2], cfg.margin)
      base_shape_size == cfg.shape_size
      color == task.color
  IN << draw_shape_at_position(task.shape_a, positions.A, base_shape_size,
                               task.scale_from, task.style_from, color),
        draw_arrow(positions.arrow1),
        draw_shape_at_position(task.shape_b, positions.B, base_shape_size,
                               task.scale_to, task.style_from, color),
        draw_arrow(positions.arrow2),
        draw_shape_at_position(task.shape_c, positions.C, base_shape_size,
                               task.scale_to, task.style_to, color),
        draw_shape_at_position(task.shape_d, positions.D, base_shape_size,
                               task.scale_from, task.style_from, color),
        draw_arrow(positions.arrow3),
        draw_shape_at_position(task.shape_e, positions.E, base_shape_size,
                               task.scale_to, task.style_to, color),
        draw_arrow(positions.arrow4),
        draw_shape_at_position(task.shape_f, positions.F, base_shape_size,
                               task.scale_to, task.style_to, color) >>

\* _render_final_state (lines 273-325)
render_final_state(task, cfg) ==
  LET positions == render_final_state_positions(cfg.image_size[1],
                                                cfg.image_size[2], cfg.margin)
      base_shape_size == cfg.shape_size
      color == task.color
  IN << draw_shape_at_position(task.shape_a, positions.A, base_shape_size,
                               task.scale_from, task.style_from, color),
        draw_arrow(positions.arrow1),
        draw_shape_at_position(task.shape_b, positions.B, base_shape_size,
                               task.scale_to, task.style_from, color),
        draw_arrow(positions.arrow2),
        draw_shape_at_position(task.shape_c, positions.C, base_shape_size,
                               task.scale_to, task.style_to, color),
        draw_shape_at_position(task.shape_d, positions.D, base_shape_size,
                               task.scale_from, task.style_from, color),
        draw_arrow(positions.arrow3),
        draw_shape_at_position(task.shape_e, positions.E, base_shape_size,
                               task.scale_to, task.style_from, color),
        draw_arrow(positions.arrow4),
        draw_shape_at_position(task.shape_f, positions.F, base_shape_size,
                               task.scale_to, task.style_to, color) >>

\* variant: B is drawn at the scale of A
render_static_elements_SmallB(task, base_shape_size, margin, width, height) ==
  LET positions == render_static_elements_positions(width, height, margin)
      color == task.color
  IN << draw_shape_at_position(task.shape_a, positions.A, base_shape_size,
                               task.scale_from, task.style_from, color),
        draw_arrow(positions.arrow1),
        draw_shape_at_position(task.shape_b, positions.B, base_shape_size,
                               task.scale_from, task.style_from, color),
        draw_arrow(positions.arrow2),
        draw_shape_at_position(task.shape_c, positions.C, base_shape_size,
                               task.scale_to, task.style_to, color),
        draw_shape_at_position(task.shape_d, positions.D, base_shape_size,
                               task.scale_from, task.style_from, color),
        draw_arrow(positions.arrow3),
        draw_arrow(positions.arrow4) >>

\* _render_static_elements (lines 689-731)
render_static_elements(task, base_shape_size, margin, width, height) ==
  LET positions == render_static_elements_positions(width, height, margin)
      color == task.color
  IN << draw_shape_at_position(task.shape_a, positions.A, base_shape_size,
                               task.scale_from, task.style_from, color),
        draw_arrow(positions.arrow1),
        draw_shape_at_position(task.shape_b, positions.B, base_shape_size,
                               task.scale_to, task.style_from, color),
        draw_arrow(positions.arrow2),
        draw_shape_at_position(task.shape_c, positions.C, base_shape_size,
                               task.scale_to, task.style_to, color),
        draw_shape_at_position(task.shape_d, positions.D, base_shape_size,
                               task.scale_from, task.style_from, color),
        draw_arrow(positions.arrow3),
        draw_arrow(positions.arrow4) >>

\* ------------------------------------------------------------------------
\* _create_sequential_morph_frames
\* ------------------------------------------------------------------------
\* variant: progress = i / step_frames
morph_progress_OffByOne(i, step_frames) ==
  IF step_frames > 1 THEN <<i, step_frames>> ELSE <<1, 1>>

\* progress of frame i (lines 638 and 668) as the fraction
\* <<numerator, denominator>>: i / (step_frames - 1), or 1.0 for one frame
morph_progress(i, step_frames) ==
  IF step_frames > 1 THEN <<i, step_frames - 1>> ELSE <<1, 1>>

\* int(x) of a positive float x whose exact value is num / den.  At
\* progress 0 and 1 the float is exact.  In between, when num / den is a
\* whole number the float may lie just below it, and int() then gives one
\* less: low says that it does.
IntOf(num, den, low) ==
  IF low /\ num % den = 0 THEN (num \div den) - 1 ELSE num \div den

\* variant: the scale runs from scale_to back to scale_from
CurrentSizeNum_Backwards(base_shape_size, sf, st, p) ==
  base_shape_size * (st * p[2] + (sf - st) * p[1])

\* base_shape_size * current_scale (lines 639-640) as a fraction over
\* 10 * p[2], for scale factors sf and st in tenths
CurrentSizeNum(base_shape_size, sf, st, p) ==
  base_shape_size * (sf * p[2] + (st - sf) * p[1])

\* the frames whose interpolated size, or fill opacity, is a whole number
\* strictly between the end points
SizeRoundingFrames(task, cfg, step_frames) ==
  { i \in 0..(step_frames - 1) :
      LET p == morph_progress(i, step_frames)
      IN /\ 0 < p[1]
         /\ p[1] < p[2]
         /\ CurrentSizeNum(cfg.shape_size, scale_factors[task.scale_from],
                           scale_factors[task.scale_to], p) % (10 * p[2]) = 0 }

AlphaRoundingFrames(step_frames) ==
  { i \in 0..(step_frames - 1) :
      LET p == morph_progress(i, step_frames)
      IN /\ 0 < p[1]
         /\ 2 * p[1] < p[2]
         /\ (255 * (p[2] - 2 * p[1])) % p[2] = 0 }

\* one frame of step 1 (lines 633-652)
scale_reveal_frame(task, cfg, step_frames, i, low) ==
  LET pos == morph_positions(cfg.image_size[1], cfg.image_size[2], cfg.margin)
      scale_from == scale_factors[task.scale_from]
      scale_to == scale_factors[task.scale_to]
      style_from_config == fill_styles[task.style_from]
      progress == morph_progress(i, step_frames)
      current_size == IntOf(CurrentSizeNum(cfg.shape_size, scale_from, scale_to,
                                           progress),
                            10 * progress[2], low)
      color == task.color
  IN [ phase |-> "scale", index |-> i,
       draws |->
         render_static_elements(task, cfg.shape_size, cfg.margin,
                                cfg.image_size[1], cfg.image_size[2])
         \o << draw_base_shape(task.shape_d, pos.question1[1], pos.question1[2],
                               current_size,
                               IF style_from_config.fill THEN color ELSE None,
                               color, style_from_config.outline_width),
               draw_question_mark(pos.question2) >> ]

\* variant: progress <= 0.5
fill_fading_Inclusive(progress) == 2 * progress[1] <= progress[2]

\* the test progress < 0.5 of line 671
fill_fading(progress) == 2 * progress[1] < progress[2]

\* one frame of step 2 (lines 655-685); an RGBA fill is the color followed by
\* its alpha
style_reveal_frame(task, cfg, step_frames, i, low) ==
  LET pos == morph_positions(cfg.image_size[1], cfg.image_size[2], cfg.margin)
      scale_to == scale_factors[task.scale_to]
      style_from_config == fill_styles[task.style_from]
      style_to_config == fill_styles[task.style_to]
      color == task.color
      final_size == (cfg.shape_size * scale_to) \div 10
      progress == morph_progress(i, step_frames)
      first_half == fill_fading(progress)
      fill_alpha == IntOf(255 * (progress[2] - 2 * progress[1]), progress[2], low)
  IN [ phase |-> "style", index |-> i,
       draws |->
         render_static_elements(task, cfg.shape_size, cfg.margin,
                                cfg.image_size[1], cfg.image_size[2])
         \o << draw_base_shape(task.shape_d, pos.question1[1], pos.question1[2],
                               final_size,
                               IF style_from_config.fill THEN color ELSE None,
                               color, style_from_config.outline_width),
               draw_base_shape(task.shape_d, pos.question2[1], pos.question2[2],
                               final_size,
                               IF first_half THEN color \o <<fill_alpha>> ELSE None,
                               color,
                               IF first_half
                               THEN style_from_config.outline_width
                               ELSE style_to_config.outline_width) >> ]

\* the frame list: step_frames frames of step 1, then step_frames of step 2.
\* low_size and low_alpha are the frames where the float fell below.
create_sequential_morph_frames(task, step_frames, cfg, low_size, low_alpha) ==
  [ n \in 1..step_frames |->
      scale_reveal_frame(task, cfg, step_frames, n - 1, (n - 1) \in low_size) ]
  \o
  [ n \in 1..step_frames |->
      style_reveal_frame(task, cfg, step_frames, n - 1, (n - 1) \in low_alpha) ]

\* ------------------------------------------------------------------------
\* _create_transformation_frames
\* ------------------------------------------------------------------------
\* the default arguments (line 592)
DefaultHoldFrames == 20
DefaultStepFrames == 25

\* count copies of an image, as frames of the named phase
HeldCopies(image, count, phase) ==
  [ n \in 1..count |-> [phase |-> phase, index |-> n - 1, draws |-> image] ]

\* variant: the copies of the final image are appended before the morph
create_transformation_frames_FinalHoldFirst(image1, image2, task, hold, steps, cfg, low_size, low_alpha) ==
  HeldCopies(image1, hold, "hold_initial")
  \o HeldCopies(image2, hold, "hold_final")
  \o create_sequential_morph_frames(task, steps, cfg, low_size, low_alpha)

\* _create_transformation_frames (lines 592-607)
create_transformation_frames(image1, image2, task, hold, steps, cfg, low_size, low_alpha) ==
  HeldCopies(image1, hold, "hold_initial")
  \o create_sequential_morph_frames(task, steps, cfg, low_size, low_alpha)
  \o HeldCopies(image2, hold, "hold_final")

\* ------------------------------------------------------------------------
\* State
\* ------------------------------------------------------------------------
VARIABLES
  generated_combinations,  \* self.generated_combinations
  task_data,               \* the record returned by the last _generate_task_data
  path,                    \* how the last call chose its key
  status,                  \* how the last generate_task_pair ended
  notices,                 \* number of exhaustion warnings printed so far
  calls,                   \* number of _generate_task_data calls that returned
  seen_before,             \* history: generated_combinations before the last call
  issued,                  \* history: bag of the keys returned in uniqueness mode
  cat_scales,              \* SpecCatalog: the scale names handed to the function
  cat_styles,              \* SpecCatalog: the style names handed to the function
  transformations,         \* SpecCatalog: the list returned by the last call
  transformations_prev,    \* SpecCatalog: the list returned by the call before
  gen_calls,               \* SpecCatalog: number of calls made
  config,                  \* rendering: image_size, margin, shape_size
  render_task,             \* rendering: the task record being rendered
  step_frames,             \* rendering: the step_frames argument
  first_image,             \* rendering: result of _render_initial_state
  final_image,             \* rendering: result of _render_final_state
  frames,                  \* rendering: result of _create_sequential_morph_frames
  hold_frames,             \* rendering: the hold_frames argument
  video_frames,            \* rendering: result of _create_transformation_frames
  draw_request,            \* drawing: the arguments of one draw call
  draw_outcome,            \* drawing: how that call ended
  generate_videos,         \* self.config.generate_videos
  video_generator,         \* TRUE when self.video_generator is not None
  pair,                    \* the TaskPair returned by the last generate_task_pair
  call_input               \* history: what the last generate_task_pair was given

pairVars == <<generate_videos, video_generator, pair, call_input>>

trackerVars ==
  <<generated_combinations, task_data, path, status, notices, calls,
    seen_before, issued, pairVars>>

catalogVars ==
  <<cat_scales, cat_styles, transformations, transformations_prev, gen_calls>>

holdVars == <<hold_frames, video_frames>>

drawVars == <<draw_request, draw_outcome>>

renderVars ==
  <<config, render_task, step_frames, first_image, final_image, frames,
    holdVars, drawVars>>

vars == <<trackerVars, catalogVars, renderVars>>

\* ---- the generator (Spec) ----
NoPair == [task_id |-> -1]

NoInput == [task_id |-> -1]

\* self.video_generator is set only when video generation is configured and
\* VideoGenerator.is_available() (lines 36-39)
video_generator_of(configured, available) == configured /\ available

\* a generator configured without video
VideoDisabled ==
  /\ generate_videos = FALSE
  /\ video_generator = video_generator_of(FALSE, FALSE)
  /\ pair = NoPair
  /\ call_input = NoInput

TrackerFresh ==
  /\ generated_combinations = {}
  /\ task_data = NoTask
  /\ path = "none"
  /\ status = "none"
  /\ notices = 0
  /\ calls = 0
  /\ seen_before = {}
  /\ issued = EmptyBag

TrackerInit == TrackerFresh /\ VideoDisabled

CatalogIdle ==
  /\ cat_scales = <<>>
  /\ cat_styles = <<>>
  /\ transformations = <<>>
  /\ transformations_prev = <<>>
  /\ gen_calls = 0

NoConfig == [image_size |-> <<0, 0>>, margin |-> 0, shape_size |-> 0]

\* _create_transformation_frames has not returned
NoFrames == [returned |-> FALSE, frames |-> <<>>]

HoldIdle ==
  /\ hold_frames = 0
  /\ video_frames = NoFrames

NoRequest == [entry |-> "none"]

NoOutcome == [raised |-> "not called", primitives |-> <<>>]

DrawIdle ==
  /\ draw_request = NoRequest
  /\ draw_outcome = NoOutcome

RenderIdle ==
  /\ config = NoConfig
  /\ render_task = NoTask
  /\ step_frames = 0
  /\ first_image = <<>>
  /\ final_image = <<>>
  /\ frames = <<>>
  /\ HoldIdle
  /\ DrawIdle

Init == TrackerInit /\ CatalogIdle /\ RenderIdle

\* the configuration of the generator whose task pairs are returned
GeneratorConfig == [image_size |-> <<800, 400>>, margin |-> 40, shape_size |-> 100]

\* variant: the encoder is used whenever video generation is configured
video_wanted_NoGeneratorTest(configured, generator) == configured

\* the test of line 115
video_wanted(configured, generator) == configured /\ generator

\* _generate_video (lines 580-590): str(result) if result else None, where
\* result is what create_video_from_frames returned; without a generator
\* the attribute access of line 589 raises
generate_video(generator, task_id, encoder) ==
  IF ~generator THEN [raised |-> TRUE, video_path |-> None]
  ELSE IF encoder = "raises" THEN [raised |-> TRUE, video_path |-> None]
  ELSE IF encoder = "path"
       THEN [raised |-> FALSE, video_path |-> <<"ground_truth", task_id>>]
       ELSE [raised |-> FALSE, video_path |-> None]

\* what the encoder may do in a call: it is used only when line 115 holds
EncoderOutcomes ==
  IF video_wanted(generate_videos, video_generator)
  THEN {"path", "failure", "raises"}
  ELSE {"unused"}

\* generate_task_pair: _generate_task_data, then rendering.  images_ok is
\* FALSE when a collaborator raises while the two images are made (canvas
\* allocation); encoder is what the video encoder does when it is used.
generate_task_pair(task_id, draws, images_ok, encoder) ==
  LET r == generate_task_data(generated_combinations, draws)
      video == IF video_wanted(generate_videos, video_generator)
               THEN generate_video(video_generator, task_id, encoder)
               ELSE [raised |-> FALSE, video_path |-> None]
      returned == r.path # "RuntimeError" /\ images_ok /\ ~video.raised
  IN /\ seen_before' = generated_combinations
     /\ generated_combinations' = r.seen
     /\ path' = r.path
     /\ notices' = notices + r.notice
     /\ task_data' = r.task
     /\ call_input' = [task_id |-> task_id, images_ok |-> images_ok,
                       encoder |-> encoder]
     /\ pair' = IF returned
                THEN [ task_id |-> task_id,
                       first_image |-> render_initial_state(r.task, GeneratorConfig),
                       final_image |-> render_final_state(r.task, GeneratorConfig),
                       ground_truth_video |-> video.video_path ]
                ELSE NoPair
     /\ IF r.path = "RuntimeError"
        THEN /\ status' = "RuntimeError"
             /\ UNCHANGED <<calls, issued>>
        ELSE /\ status' = IF returned THEN "returned" ELSE "render_error"
             /\ calls' = calls + 1
             /\ issued' = IF r.path = "duplicate"
                          THEN issued
                          ELSE issued (+) SetToBag({r.key})
     /\ UNCHANGED <<generate_videos, video_generator>>

\* the dataset loop: the task id is the number of the task
GenerateTaskPair ==
  /\ calls < MaxCalls
  /\ \E draws \in [1..MaxAttempts -> RandomCombinations],
        images_ok \in BOOLEAN, encoder \in EncoderOutcomes :
        generate_task_pair(calls, draws, images_ok, encoder)
  /\ UNCHANGED <<catalogVars, renderVars>>

Next == GenerateTaskPair

Spec == Init /\ [][Next]_vars

\* ---- generate_task_pair under every video configuration (SpecVideo) ----
\* Number of generate_task_pair calls explored under SpecVideo.
MaxVideoCalls == 2
\* The caller's task ids are 0 .. MaxTaskId.
MaxTaskId == 1

VideoInit ==
  /\ TrackerFresh
  /\ generate_videos \in BOOLEAN
  /\ \E available \in BOOLEAN :
        video_generator = video_generator_of(generate_videos, available)
  /\ pair = NoPair
  /\ call_input = NoInput
  /\ CatalogIdle
  /\ RenderIdle

\* a caller that passes any task id
GenerateTaskPairOfId ==
  /\ calls < MaxVideoCalls
  /\ \E task_id \in 0..MaxTaskId, draws \in [1..MaxAttempts -> RandomCombinations],
        images_ok \in BOOLEAN, encoder \in EncoderOutcomes :
        generate_task_pair(task_id, draws, images_ok, encoder)
  /\ UNCHANGED <<catalogVars, renderVars>>

NextVideo == GenerateTaskPairOfId

SpecVideo == VideoInit /\ [][NextVideo]_vars

\* ---- _generate_all_valid_transformations on catalogs (SpecCatalog) ----
\* the entries of names whose index is in S, in catalog order
SubCatalog(names, S) ==
  LET F[i \in 0..Len(names)] ==
        IF i = 0 THEN <<>>
        ELSE IF i \in S THEN Append(F[i - 1], names[i]) ELSE F[i - 1]
  IN F[Len(names)]

SubCatalogs(names) == {SubCatalog(names, S) : S \in SUBSET (1..Len(names))}

CatalogInit ==
  /\ cat_scales \in SubCatalogs(scale_names)
  /\ cat_styles \in SubCatalogs(style_names)
  /\ transformations = <<>>
  /\ transformations_prev = <<>>
  /\ gen_calls = 0
  /\ TrackerInit
  /\ RenderIdle

GenerateAllValidTransformations ==
  /\ gen_calls < MaxGenerateCalls
  /\ transformations' = generate_all_valid_transformations(cat_scales, cat_styles)
  /\ transformations_prev' = transformations
  /\ gen_calls' = gen_calls + 1
  /\ UNCHANGED <<cat_scales, cat_styles, trackerVars, renderVars>>

NextCatalog == GenerateAllValidTransformations

SpecCatalog == CatalogInit /\ [][NextCatalog]_vars

\* ---- rendering (SpecLayout, SpecMorph) ----
ImageSizes ==
  { <<800, 400>>, <<640, 480>>, <<512, 512>>, <<1024, 768>>, <<801, 401>>,
    <<300, 200>> }

Margins == {0, 20, 40, 45}

ShapeSizes == {60, 100, 105}

\* the record of the end-to-end scenario
ScenarioTask ==
  TaskOfKey(<<"circle", "square", "small", "large", "filled", "outline",
              <<70, 130, 180>>>>)

LayoutInit ==
  /\ config \in [image_size : ImageSizes, margin : Margins, shape_size : {100}]
  /\ render_task = ScenarioTask
  /\ step_frames \in 1..2
  /\ first_image = <<>>
  /\ final_image = <<>>
  /\ frames = <<>>
  /\ HoldIdle
  /\ DrawIdle
  /\ TrackerInit
  /\ CatalogIdle

MorphInit ==
  /\ config \in [image_size : {<<800, 400>>}, margin : {40},
                 shape_size : ShapeSizes]
  /\ render_task \in
       { TaskOfKey(<<"circle", "square", q[1], q[2], q[3], q[4], <<70, 130, 180>>>>) :
           q \in Range(generate_all_valid_transformations(scale_names, style_names)) }
  /\ step_frames \in 1..MaxStepFrames
  /\ first_image = <<>>
  /\ final_image = <<>>
  /\ frames = <<>>
  /\ HoldIdle
  /\ DrawIdle
  /\ TrackerInit
  /\ CatalogIdle

RenderInitialState ==
  /\ first_image = <<>>
  /\ first_image' = render_initial_state(render_task, config)
  /\ UNCHANGED <<config, render_task, step_frames, final_image, frames,
                 holdVars, drawVars, trackerVars, catalogVars>>

RenderFinalState ==
  /\ final_image = <<>>
  /\ final_image' = render_final_state(render_task, config)
  /\ UNCHANGED <<config, render_task, step_frames, first_image, frames,
                 holdVars, drawVars, trackerVars, catalogVars>>

CreateSequentialMorphFrames ==
  /\ frames = <<>>
  /\ \E low_size \in SUBSET SizeRoundingFrames(render_task, config, step_frames),
        low_alpha \in SUBSET AlphaRoundingFrames(step_frames) :
       frames' = create_sequential_morph_frames(render_task, step_frames, config,
                                                low_size, low_alpha)
  /\ UNCHANGED <<config, render_task, step_frames, first_image, final_image,
                 holdVars, drawVars, trackerVars, catalogVars>>

NextRender ==
  \/ RenderInitialState
  \/ RenderFinalState
  \/ CreateSequentialMorphFrames

SpecLayout == LayoutInit /\ [][NextRender]_vars

SpecMorph == MorphInit /\ [][NextRender]_vars

\* ---- _create_transformation_frames (SpecFrames) ----
\* Largest hold_frames argument explored besides the default.
MaxHoldFrames == 3

\* records going up and down in scale, to and from the filled style
FrameTasks ==
  { ScenarioTask,
    TaskOfKey(<<"star", "heart", "huge", "tiny", "thick_outline", "filled",
                <<220, 20, 60>>>>),
    TaskOfKey(<<"square", "triangle", "medium", "extra_large", "thin_outline",
                "outline", <<70, 130, 180>>>>) }

FramesInit ==
  /\ config = GeneratorConfig
  /\ render_task \in FrameTasks
  /\ \E args \in ((0..MaxHoldFrames) \X (0..MaxStepFrames))
                    \cup {<<DefaultHoldFrames, DefaultStepFrames>>} :
        hold_frames = args[1] /\ step_frames = args[2]
  /\ first_image = <<>>
  /\ final_image = <<>>
  /\ frames = <<>>
  /\ video_frames = NoFrames
  /\ DrawIdle
  /\ TrackerInit
  /\ CatalogIdle

\* _create_transformation_frames on the two rendered images
CreateTransformationFrames ==
  /\ first_image # <<>>
  /\ final_image # <<>>
  /\ ~video_frames.returned
  /\ \E low_size \in SUBSET SizeRoundingFrames(render_task, config, step_frames),
        low_alpha \in SUBSET AlphaRoundingFrames(step_frames) :
       video_frames' =
         [ returned |-> TRUE,
           frames |-> create_transformation_frames(first_image, final_image,
                                                   render_task, hold_frames,
                                                   step_frames, config,
                                                   low_size, low_alpha) ]
  /\ UNCHANGED <<config, render_task, step_frames, first_image, final_image,
                 frames, hold_frames, drawVars, trackerVars, catalogVars>>

NextFrames ==
  \/ RenderInitialState
  \/ RenderFinalState
  \/ CreateTransformationFrames

SpecFrames == FramesInit /\ [][NextFrames]_vars

\* ---- single draw calls (SpecDraw) ----
\* sizes handed to a draw call: negative, zero, one and a usual size
DrawSizes == {-100, -1, 0, 1, 100}

DrawInit ==
  /\ draw_request \in
       [ entry : {"pending"},
         shape : Range(base_shapes) \cup {"blob"},
         size : DrawSizes,
         scale_name : Range(scale_names) \cup {"giant"},
         style_name : Range(style_names) \cup {"dashed"} ]
  /\ draw_outcome = NoOutcome
  /\ config = NoConfig
  /\ render_task = NoTask
  /\ step_frames = 0
  /\ first_image = <<>>
  /\ final_image = <<>>
  /\ frames = <<>>
  /\ HoldIdle
  /\ TrackerInit
  /\ CatalogIdle

\* _draw_shape_at_position(draw, shape, position, size, scale_name,
\* style_name, color) with the request's size as base size
DrawShapeAtPosition ==
  /\ draw_request.entry = "pending"
  /\ draw_request' = [draw_request EXCEPT !.entry = "_draw_shape_at_position"]
  /\ draw_outcome' \in
       draw_shape_at_position_outcomes(draw_request.shape, draw_request.size,
                                       draw_request.scale_name,
                                       draw_request.style_name)
  /\ UNCHANGED <<config, render_task, step_frames, first_image, final_image,
                 frames, holdVars, trackerVars, catalogVars>>

\* _draw_base_shape(draw, shape, x, y, size, ...) with the request's size
DrawBaseShape ==
  /\ draw_request.entry = "pending"
  /\ draw_request' = [draw_request EXCEPT !.entry = "_draw_base_shape"]
  /\ draw_outcome' \in draw_base_shape_outcomes(draw_request.shape,
                                                draw_request.size)
  /\ UNCHANGED <<config, render_task, step_frames, first_image, final_image,
                 frames, holdVars, trackerVars, catalogVars>>

NextDraw ==
  \/ DrawShapeAtPosition
  \/ DrawBaseShape

SpecDraw == DrawInit /\ [][NextDraw]_vars

\* ------------------------------------------------------------------------
\* Properties of the tracker (checked under Spec)
\* ------------------------------------------------------------------------
UniquePaths == {"random", "systematic"}

\* self.valid_transformations of the full catalogs (6 scales, 4 styles)
AllTransformations == generate_all_valid_transformations(scale_names, style_names)

\* C1: no combination key is returned twice by the calls made while
\* |seen| < capacity, whichever of the random path and the sweep chose it:
\* every key of the bag of keys issued in uniqueness mode occurs once.
C1_NoKeyReturnedTwice ==
  \A k \in BagToSet(issued) : CopiesIn(k, issued) = 1

\* the sweep has issued a key after the random path issued others
C1_Witness ==
  /\ path = "systematic"
  /\ Cardinality(BagToSet(issued)) >= 3

\* C2: the exhaustion notice is emitted exactly once in total, on the first
\* call made with |seen| = capacity and on no later call.
C2_NoticeExactlyOnce ==
  /\ notices <= 1
  /\ path = "duplicate" => notices = 1

\* C3: a call made with |seen| < capacity returns a key that was not in seen
\* before the call, also when every random draw collided, and the
\* RuntimeError of the sweep is never raised.
C3_UniqueCallFindsFreeKey ==
  /\ path # "RuntimeError"
  /\ status # "RuntimeError"
  /\ path \in UniquePaths =>
       /\ Cardinality(seen_before) < max_unique_combinations
       /\ CombinationKey(task_data) \notin seen_before
       /\ CombinationKey(task_data) \in generated_combinations

\* every draw collided and the sweep found the last free key
C3_Witness ==
  /\ path = "systematic"
  /\ Cardinality(seen_before) = max_unique_combinations - 1
  /\ Cardinality(generated_combinations) = max_unique_combinations

\* C4: every quadruple of _generate_all_valid_transformations, and the
\* transformation of every task record emitted in any mode, changes both
\* axes: scale_from # scale_to and style_from # style_to.
C4_BothAxesChange ==
  /\ \A q \in Range(valid_transformations) \cup Range(AllTransformations) :
       q[1] # q[2] /\ q[3] # q[4]
  /\ task_data # NoTask =>
       /\ task_data.scale_from # task_data.scale_to
       /\ task_data.style_from # task_data.style_to

\* a record emitted by post-exhaustion duplicate sampling
C4_Witness ==
  /\ path = "duplicate"
  /\ status = "returned"
  /\ task_data # NoTask

\* C6: the seen set starts empty and only grows: its value before a call is
\* a subset of its value after the call, in every mode.
C6_SeenOnlyGrows ==
  /\ status = "none" => generated_combinations = {}
  /\ seen_before \subseteq generated_combinations

\* the second call after exhaustion left the full set in place
C6_Witness ==
  /\ path = "duplicate"
  /\ calls >= max_unique_combinations + 2
  /\ Cardinality(generated_combinations) = max_unique_combinations

\* C7 as stated: when generate_task_pair aborts, seen equals its value
\* before the call.
C7_AbortLeavesSeenUnchanged ==
  status \in {"render_error", "RuntimeError"} =>
    generated_combinations = seen_before

\* C7 amended: an abort in the sweep leaves seen unchanged; an abort in
\* rendering leaves in seen exactly the one key the call chose in uniqueness
\* mode (a key that was not in seen before), and leaves seen unchanged after
\* exhaustion.
C7_AbortKeepsChosenKey ==
  /\ status = "RuntimeError" => generated_combinations = seen_before
  /\ (status = "render_error" /\ path \in UniquePaths) =>
       /\ CombinationKey(task_data) \notin seen_before
       /\ generated_combinations = seen_before \cup {CombinationKey(task_data)}
  /\ (status = "render_error" /\ path = "duplicate") =>
       generated_combinations = seen_before

\* rendering aborted after the sweep had chosen and recorded a key
C7_Witness ==
  /\ status = "render_error"
  /\ path = "systematic"
  /\ generated_combinations # seen_before

\* C8: every task record, in any mode, has two different shapes, slots A, B,
\* C equal to the example shape, slots D, E, F equal to the question shape,
\* and a color of the palette.
C8_RecordSlots ==
  task_data # NoTask =>
    /\ task_data.shape_a # task_data.shape_d
    /\ task_data.shape_b = task_data.shape_a
    /\ task_data.shape_c = task_data.shape_a
    /\ task_data.shape_e = task_data.shape_d
    /\ task_data.shape_f = task_data.shape_d
    /\ task_data.shape_a \in Range(base_shapes)
    /\ task_data.shape_d \in Range(base_shapes)
    /\ task_data.color \in Range(shape_colors)

\* records of the three modes: one from the sweep that was returned
C8_Witness ==
  /\ path = "systematic"
  /\ status = "returned"
  /\ task_data.shape_e = "square"

\* ------------------------------------------------------------------------
\* Properties of _generate_all_valid_transformations (checked under SpecCatalog)
\* ------------------------------------------------------------------------
\* the ordered unequal scale pairs crossed with the ordered unequal style pairs
CrossProduct(scales, styles) ==
  { q \in Range(scales) \X Range(scales) \X Range(styles) \X Range(styles) :
      q[1] # q[2] /\ q[3] # q[4] }

\* C5: the list returned is exactly the cross product of the ordered unequal
\* scale pairs and the ordered unequal style pairs, without repetition; for
\* the 6 scales and 4 styles of the catalogs it has 360 elements; a second
\* call on the same catalogs returns the same list.
C5_ExactCrossProduct ==
  gen_calls >= 1 =>
    /\ Range(transformations) = CrossProduct(cat_scales, cat_styles)
    /\ Len(transformations) = Cardinality(Range(transformations))
    /\ Len(transformations) =
         Len(cat_scales) * (Len(cat_scales) - 1)
           * Len(cat_styles) * (Len(cat_styles) - 1)
    /\ (cat_scales = scale_names /\ cat_styles = style_names) =>
         /\ Len(cat_scales) = 6
         /\ Len(cat_styles) = 4
         /\ Len(transformations) = 360
    /\ gen_calls >= 2 => transformations = transformations_prev

\* the function was called twice on the catalogs of the program
C5_Witness ==
  /\ gen_calls = 2
  /\ cat_scales = scale_names
  /\ cat_styles = style_names
  /\ Len(transformations) = 360

\* ------------------------------------------------------------------------
\* Properties of the layout (checked under SpecLayout)
\* ------------------------------------------------------------------------
Center(d) == <<d.x, d.y>>

\* index of each slot in the draw list of an image, and of a frame
ImageSlots == {1, 3, 5, 6, 8, 10}

FrameSlot(j) == IF j = 8 THEN 9 ELSE j

\* C9: for one image size and margin the centers of A, B, C, D and of the
\* two unknowns are the same in the initial image, in the final image and in
\* every animation frame, with row 1 at y = height // 3 and row 2 at
\* y = 2 * height // 3.
C9_SameCenters ==
  LET height == config.image_size[2]
      Rows(img) ==
        /\ \A j \in {1, 3, 5} : img[j].y = height \div 3
        /\ \A j \in {6, 8, 10} : img[j].y = (2 * height) \div 3
  IN /\ first_image # <<>> => Rows(first_image)
     /\ final_image # <<>> => Rows(final_image)
     /\ (first_image # <<>> /\ final_image # <<>>) =>
          \A j \in ImageSlots : Center(first_image[j]) = Center(final_image[j])
     /\ (frames # <<>> /\ final_image # <<>>) =>
          \A n \in 1..Len(frames) : \A j \in ImageSlots :
            Center(frames[n].draws[FrameSlot(j)]) = Center(final_image[j])
     /\ (frames # <<>> /\ first_image # <<>>) =>
          \A n \in 1..Len(frames) : \A j \in ImageSlots :
            Center(frames[n].draws[FrameSlot(j)]) = Center(first_image[j])

\* both images and the frames exist for image_size (800, 400) and margin 40;
\* slot F is centered at (616.0, 266)
C9_Witness ==
  /\ config.image_size = <<800, 400>>
  /\ config.margin = 40
  /\ first_image # <<>>
  /\ final_image # <<>>
  /\ Len(frames) = 4
  /\ Center(final_image[10]) = <<6160, 266>>
  /\ Center(first_image[1]) = <<1360, 133>>

\* ------------------------------------------------------------------------
\* Properties of the animation (checked under SpecMorph)
\* ------------------------------------------------------------------------
\* int(base_shape_size * factor) for a named scale
ScaledSize(scale_name) == (config.shape_size * scale_factors[scale_name]) \div 10

\* the first unknown as drawn in frame i (0-based) of the scale-reveal phase
ScaleFrameUnknown(i) == frames[i + 1].draws[9]

\* C10 as stated: for every step_frames >= 1 frame 0 of the scale-reveal
\* phase draws the first unknown with size base_size * scale_from and the
\* last frame with size base_size * scale_to, also when step_frames = 1.
C10_ScaleBoundaries ==
  frames # <<>> =>
    /\ ScaleFrameUnknown(0).size = ScaledSize(render_task.scale_from)
    /\ ScaleFrameUnknown(step_frames - 1).size = ScaledSize(render_task.scale_to)

\* C10 amended: for step_frames >= 2 frame 0 has size
\* int(base_size * scale_from) and the last frame int(base_size * scale_to);
\* for step_frames = 1 the only frame has size int(base_size * scale_to).
C10_ScaleBoundariesFromTwo ==
  frames # <<>> =>
    /\ step_frames >= 2 =>
         ScaleFrameUnknown(0).size = ScaledSize(render_task.scale_from)
    /\ ScaleFrameUnknown(step_frames - 1).size = ScaledSize(render_task.scale_to)
    /\ ScaleFrameUnknown(0).shape = render_task.shape_d

\* a scale-reveal phase of several frames that starts and ends at different
\* sizes
C10_Witness ==
  /\ frames # <<>>
  /\ step_frames >= 3
  /\ ScaleFrameUnknown(0).size = 60
  /\ ScaleFrameUnknown(step_frames - 1).size = 190

\* ------------------------------------------------------------------------
\* Properties of the two images (checked under SpecMorph)
\* ------------------------------------------------------------------------
\* d is a draw of the named shape at int(base_size * factor of scale_name),
\* filled with the task color exactly when style_name is a filled style, with
\* the outline width of style_name
IsShapeDraw(d, shape, scale_name, style_name) ==
  /\ d.op = "shape"
  /\ d.shape = shape
  /\ d.size = ScaledSize(scale_name)
  /\ d.fill_color = IF style_name = "filled" THEN render_task.color ELSE None
  /\ d.outline_color = render_task.color
  /\ d.outline_width = fill_styles[style_name].outline_width

\* A, B, C and D as both images draw them
RowOneAndD(img) ==
  /\ IsShapeDraw(img[1], render_task.shape_a, render_task.scale_from,
                 render_task.style_from)
  /\ IsShapeDraw(img[3], render_task.shape_a, render_task.scale_to,
                 render_task.style_from)
  /\ IsShapeDraw(img[5], render_task.shape_a, render_task.scale_to,
                 render_task.style_to)
  /\ IsShapeDraw(img[6], render_task.shape_d, render_task.scale_from,
                 render_task.style_from)
  /\ \A j \in {2, 4, 7, 9} : img[j].op = "arrow"

\* C11: the initial and the final image draw A = (shape_example, scale_from,
\* style_from), B = (shape_example, scale_to, style_from), C = (shape_example,
\* scale_to, style_to) and D = (shape_question, scale_from, style_from)
\* identically; the initial image draws the placeholder glyph at positions 2
\* and 3 of row 2, the final image draws E = (shape_question, scale_to,
\* style_from) and F = (shape_question, scale_to, style_to) there.
C11_ImagesDrawTheSlots ==
  /\ first_image # <<>> =>
       /\ Len(first_image) = 10
       /\ RowOneAndD(first_image)
       /\ first_image[8].op = "question_mark"
       /\ first_image[10].op = "question_mark"
  /\ final_image # <<>> =>
       /\ Len(final_image) = 10
       /\ RowOneAndD(final_image)
       /\ IsShapeDraw(final_image[8], render_task.shape_d, render_task.scale_to,
                      render_task.style_from)
       /\ IsShapeDraw(final_image[10], render_task.shape_d, render_task.scale_to,
                      render_task.style_to)
  /\ (first_image # <<>> /\ final_image # <<>>) =>
       \A j \in 1..7 : first_image[j] = final_image[j]

\* both images of a record that goes from a small outline to a huge filled
\* shape: E is an outline of size 190, F is filled
C11_Witness ==
  /\ first_image # <<>>
  /\ final_image # <<>>
  /\ render_task.shape_a # render_task.shape_d
  /\ render_task.style_from = "thin_outline"
  /\ render_task.style_to = "filled"
  /\ final_image[8].size = 190
  /\ final_image[8].fill_color = None
  /\ final_image[10].fill_color = render_task.color
  /\ first_image[10].op = "question_mark"

\* ------------------------------------------------------------------------
\* Properties of single draw calls (checked under SpecDraw)
\* ------------------------------------------------------------------------
\* the request names a shape outside the catalog, a size that is not
\* positive or, for _draw_shape_at_position, a scale or style name that is
\* not a key of its dictionary
BadDrawRequest ==
  \/ draw_request.shape \notin Range(base_shapes)
  \/ draw_request.size <= 0
  \/ /\ draw_request.entry = "_draw_shape_at_position"
     /\ \/ draw_request.scale_name \notin Range(scale_names)
        \/ draw_request.style_name \notin Range(style_names)

\* C12: a draw request with a non-positive size, an unknown shape kind, or
\* an unknown scale or style name is rejected with an error and nothing is
\* drawn for it: neither _draw_shape_at_position nor _draw_base_shape
\* completes normally on such an input.
C12_BadRequestRejected ==
  (draw_request.entry \in {"_draw_shape_at_position", "_draw_base_shape"}
     /\ BadDrawRequest) =>
    /\ draw_outcome.raised # "none"
    /\ draw_outcome.primitives = <<>>

\* ------------------------------------------------------------------------
\* Properties of the returned task pair (checked under SpecVideo)
\* ------------------------------------------------------------------------
\* C13: when the video encoder is unavailable or video generation is
\* disabled, generate_task_pair returns a task pair with the given task id,
\* the initial image and the final image and no video path, and the missing
\* encoder raises no error (the call returns whenever the task data and the
\* two images were made); when the encoder is used and reports a failure the
\* video path of the returned pair is None as well.
C13_ImageOnlyWithoutEncoder ==
  LET called == call_input # NoInput
      made == path # "RuntimeError" /\ call_input.images_ok
  IN called =>
       /\ (~generate_videos \/ ~video_generator) =>
            /\ call_input.encoder = "unused"
            /\ made => status = "returned"
            /\ status = "returned" =>
                 /\ pair.task_id = call_input.task_id
                 /\ pair.first_image = render_initial_state(task_data, GeneratorConfig)
                 /\ pair.final_image = render_final_state(task_data, GeneratorConfig)
                 /\ pair.ground_truth_video = None
       /\ (call_input.encoder = "failure" /\ made) =>
            /\ status = "returned"
            /\ pair.task_id = call_input.task_id
            /\ pair.ground_truth_video = None

\* video generation is configured but no encoder is available, and a call
\* with task id 1 returned its image-only pair
C13_Witness ==
  /\ generate_videos
  /\ ~video_generator
  /\ status = "returned"
  /\ call_input.task_id = 1
  /\ pair.task_id = 1
  /\ pair.ground_truth_video = None
  /\ Len(pair.first_image) = 10

\* ------------------------------------------------------------------------
\* Properties of the sweep (checked under Spec)
\* ------------------------------------------------------------------------
\* position of x in a sequence without repetitions
IndexIn(seq, x) == CHOOSE i \in 1..Len(seq) : seq[i] = x

\* the rank of a key: catalog position of shape_example, of shape_question,
\* position of the quadruple in valid_transformations, palette position
KeyRank(k) ==
  << IndexIn(Shapes, k[1]), IndexIn(Shapes, k[2]),
     IndexIn(valid_transformations, <<k[3], k[4], k[5], k[6]>>),
     IndexIn(Colors, k[7]) >>

\* lexicographic order of two ranks
RankBefore(r1, r2) ==
  \E j \in 1..4 : r1[j] < r2[j] /\ \A i \in 1..(j - 1) : r1[i] = r2[i]

PhaseAt(n, hold, steps) ==
  IF n <= hold THEN "hold_initial"
  ELSE IF n <= hold + steps THEN "scale"
  ELSE IF n <= hold + 2 * steps THEN "style"
  ELSE "hold_final"

\* C15: _create_transformation_frames returns exactly
\* 2 * hold_frames + 2 * step_frames frames (90 with the defaults 20 and 25):
\* hold_frames copies of the initial image, then step_frames scale-reveal
\* frames, then step_frames style-reveal frames, then hold_frames copies of
\* the final image, and no frame of a phase precedes one of an earlier phase.
C15_FrameCountAndOrder ==
  video_frames.returned =>
    LET fs == video_frames.frames
    IN /\ Len(fs) = 2 * hold_frames + 2 * step_frames
       /\ (hold_frames = 20 /\ step_frames = 25) => Len(fs) = 90
       /\ \A n \in 1..Len(fs) :
            /\ fs[n].phase = PhaseAt(n, hold_frames, step_frames)
            /\ n <= hold_frames => fs[n].draws = first_image
            /\ n > hold_frames + 2 * step_frames => fs[n].draws = final_image
            /\ (n > hold_frames /\ n <= hold_frames + step_frames) =>
                 /\ fs[n].index = n - hold_frames - 1
                 /\ fs[n].draws[10].op = "question_mark"
            /\ (n > hold_frames + step_frames /\ n <= hold_frames + 2 * step_frames) =>
                 /\ fs[n].index = n - hold_frames - step_frames - 1
                 /\ fs[n].draws[10].op = "shape"

\* the list made with the default arguments: 90 frames, the 20th a copy of
\* the initial image, the 21st the first scale-reveal frame, the 71st a copy
\* of the final image
C15_Witness ==
  /\ video_frames.returned
  /\ hold_frames = DefaultHoldFrames
  /\ step_frames = DefaultStepFrames
  /\ Len(video_frames.frames) = 90
  /\ video_frames.frames[20].draws = first_image
  /\ video_frames.frames[21].phase = "scale"
  /\ video_frames.frames[46].phase = "style"
  /\ video_frames.frames[71].draws = final_image

\* ------------------------------------------------------------------------
\* Properties of the two animated phases (checked under SpecMorph)
\* ------------------------------------------------------------------------
\* the draws of frame i (0-based) of the style-reveal phase
StyleFrameDraws(i) == frames[step_frames + i + 1].draws

\* v is the whole number int() makes of num / den (den > 0, num >= 0): the
\* integer part, or one less where num / den is itself whole and the float
\* product fell just below it
IsIntOf(v, num, den) == v * den <= num /\ num <= (v + 1) * den

\* C16: in every frame i of the style-reveal phase, with
\* t = i / (step_frames - 1), the first unknown is drawn at the fully scaled
\* size int(base_size * scale_to) with the fill and outline width of
\* style_from; the second unknown has, for t < 0.5, the fill opacity
\* int(255 * (1 - 2t)) (255 at t = 0) and the outline width of style_from,
\* and for t >= 0.5 no fill and the outline width of style_to.
C16_StyleRevealFrames ==
  frames # <<>> =>
    \A i \in 0..(step_frames - 1) :
      LET first == StyleFrameDraws(i)[9]
          second == StyleFrameDraws(i)[10]
          d == step_frames - 1
      IN /\ IsShapeDraw(first, render_task.shape_d, render_task.scale_to,
                        render_task.style_from)
         /\ second.op = "shape"
         /\ second.shape = render_task.shape_d
         /\ second.size = ScaledSize(render_task.scale_to)
         /\ (step_frames >= 2 /\ 2 * i < d) =>
              /\ Len(second.fill_color) = 4
              /\ SubSeq(second.fill_color, 1, 3) = render_task.color
              /\ IsIntOf(second.fill_color[4], 255 * (d - 2 * i), d)
              /\ i = 0 => second.fill_color[4] = 255
              /\ second.outline_width
                   = fill_styles[render_task.style_from].outline_width
         /\ (step_frames >= 2 /\ 2 * i >= d) =>
              /\ second.fill_color = None
              /\ second.outline_width
                   = fill_styles[render_task.style_to].outline_width

\* a style-reveal phase of four frames from thick_outline to thin_outline:
\* frame 1 (t = 1/3) has opacity 85 and width 5, frame 2 (t = 2/3) has no
\* fill and width 1
C16_Witness ==
  /\ frames # <<>>
  /\ step_frames = 4
  /\ render_task.style_from = "thick_outline"
  /\ render_task.style_to = "thin_outline"
  /\ StyleFrameDraws(0)[10].fill_color = render_task.color \o <<255>>
  /\ StyleFrameDraws(1)[10].fill_color = render_task.color \o <<85>>
  /\ StyleFrameDraws(1)[10].outline_width = 5
  /\ StyleFrameDraws(2)[10].fill_color = None
  /\ StyleFrameDraws(2)[10].outline_width = 1

\* C17: in every frame i of the scale-reveal phase the first unknown is
\* drawn as shape_question with size
\* int(base_size * (scale_from + (scale_to - scale_from) * i / (step_frames - 1)))
\* and with the fill and the outline width of style_from, the second unknown
\* position shows the placeholder glyph, and no shape is drawn at the second
\* unknown position.
C17_ScaleRevealFrames ==
  frames # <<>> =>
    \A i \in 0..(step_frames - 1) :
      LET draws == frames[i + 1].draws
          first == draws[9]
          d == step_frames - 1
          sf == scale_factors[render_task.scale_from]
          st == scale_factors[render_task.scale_to]
      IN /\ frames[i + 1].phase = "scale"
         /\ first.op = "shape"
         /\ first.shape = render_task.shape_d
         /\ step_frames >= 2 =>
              IsIntOf(first.size, config.shape_size * (sf * d + (st - sf) * i),
                      10 * d)
         /\ first.fill_color
              = IF render_task.style_from = "filled" THEN render_task.color
                ELSE None
         /\ first.outline_width
              = fill_styles[render_task.style_from].outline_width
         /\ draws[10].op = "question_mark"
         /\ \A j \in 1..Len(draws) :
              draws[j].op = "shape" => Center(draws[j]) # Center(draws[10])

\* a scale-reveal phase of three frames from tiny to huge of a filled shape
\* that becomes an outline: the middle frame has size 125 and is filled
C17_Witness ==
  /\ frames # <<>>
  /\ step_frames = 3
  /\ config.shape_size = 100
  /\ render_task.scale_from = "tiny"
  /\ render_task.scale_to = "huge"
  /\ render_task.style_from = "filled"
  /\ render_task.style_to = "thick_outline"
  /\ frames[2].draws[9].size = 125
  /\ frames[2].draws[9].fill_color = render_task.color
  /\ frames[2].draws[9].outline_width = 2
  /\ frames[2].draws[10].op = "question_mark"

\* C18: every frame of the scale-reveal and style-reveal phases draws the
\* same static elements with the same parameters (A, B, C, D and the four
\* arrows, as the final image draws them); across the frames only what is
\* drawn at the two unknown positions differs.
C18_StaticElementsInEveryFrame ==
  (frames # <<>> /\ final_image # <<>>) =>
    \A n \in 1..Len(frames) :
      /\ Len(frames[n].draws) = 10
      /\ SubSeq(frames[n].draws, 1, 7) = SubSeq(final_image, 1, 7)
      /\ frames[n].draws[8] = final_image[9]
      /\ Center(frames[n].draws[9]) = Center(final_image[8])
      /\ Center(frames[n].draws[10]) = Center(final_image[10])
      /\ \A m \in 1..Len(frames) :
           SubSeq(frames[n].draws, 1, 8) = SubSeq(frames[m].draws, 1, 8)

\* eight frames and the final image of one record; B is drawn at the scale
\* of C and not of A, while the first unknown differs between frames
C18_Witness ==
  /\ Len(frames) = 8
  /\ final_image # <<>>
  /\ frames[1].draws[3].size = frames[8].draws[5].size
  /\ frames[1].draws[3].size # frames[1].draws[1].size
  /\ frames[1].draws[9] # frames[4].draws[9]
  /\ frames[1].draws[10] # frames[8].draws[10]

\* C20: for every task record and every step_frames >= 1 the last frame of
\* the style-reveal phase draws the two unknowns with the parameters of the
\* final image: E with size int(base_size * scale_to) and the fill and
\* outline width of style_from, F with size int(base_size * scale_to) and
\* the fill presence and outline width of style_to, so F is filled in that
\* frame whenever style_to is the filled style.
C20_LastFrameShowsFinalImage ==
  (frames # <<>> /\ final_image # <<>>) =>
    LET last == StyleFrameDraws(step_frames - 1)
    IN /\ last[9] = final_image[8]
       /\ last[10] = final_image[10]
       /\ IsShapeDraw(last[9], render_task.shape_d, render_task.scale_to,
                      render_task.style_from)
       /\ IsShapeDraw(last[10], render_task.shape_d, render_task.scale_to,
                      render_task.style_to)

\* ------------------------------------------------------------------------
\* Size of the tracker set (checked under Spec)
\* ------------------------------------------------------------------------
\* the valid keys: two distinct catalog shapes, a quadruple of
\* valid_transformations, a palette color
ValidKeys ==
  { k \in Range(Shapes) \X Range(Shapes) \X Range(Scales) \X Range(Scales)
            \X Range(Styles) \X Range(Styles) \X Range(Colors) :
      /\ k[1] # k[2]
      /\ <<k[3], k[4], k[5], k[6]>> \in Range(valid_transformations) }

\* |shapes| * (|shapes| - 1) * |quadruples| * |colors|
Capacity ==
  Cardinality(Range(Shapes)) * (Cardinality(Range(Shapes)) - 1)
    * Cardinality(Range(valid_transformations)) * Cardinality(Range(Colors))

\* C19: in every reachable state every element of seen is a valid key, so
\* |seen| <= capacity = |shapes| * (|shapes| - 1) * |quadruples| * |colors|,
\* and after n completed task-data generation calls |seen| = min(n, capacity):
\* a call in uniqueness mode adds exactly one key, a call after exhaustion
\* adds none.
C19_SeenSizeIsMinOfCallsAndCapacity ==
  /\ generated_combinations \subseteq ValidKeys
  /\ Cardinality(ValidKeys) = Capacity
  /\ Cardinality(generated_combinations) <= Capacity
  /\ Cardinality(generated_combinations)
       = IF calls <= Capacity THEN calls ELSE Capacity
  /\ path \in UniquePaths =>
       /\ Cardinality(generated_combinations) = Cardinality(seen_before) + 1
       /\ seen_before \subseteq generated_combinations
  /\ path = "duplicate" =>
       /\ generated_combinations = seen_before
       /\ Cardinality(seen_before) = Capacity

\* two calls after the capacity was used up: seen still holds exactly the
\* valid keys
C19_Witness ==
  /\ calls = Capacity + 2
  /\ path = "duplicate"
  /\ Cardinality(generated_combinations) = max_unique_combinations
  /\ generated_combinations = ValidKeys

====
